---- MODULE Spec2Model ----
(***************************************************************************)
(* Model of src/src/twitter_metrics.py: the TwitterCounter metrics client  *)
(* (identifier cache, call counter, counting call) and the PostingReminder *)
(* registry and checker, with the PokeAPI delivery client of               *)
(* src/src/python_example.py as the object passed as poke_client.          *)
(*                                                                         *)
(* A Python str is a sequence of one-character strings.  A literal piece   *)
(* of an f-string that holds none of the characters 4, 2, 9 is kept as one *)
(* element of the sequence: the only text the code ever searches for is    *)
(* "429", so such a piece can neither hold a match nor join one.           *)
(***************************************************************************)
EXTENDS Integers, Sequences, FiniteSets, TLC

(***************************************************************************)
(* Bounds of the model.                                                    *)
(***************************************************************************)
MaxReminders == 2
MaxCalls == 4
MaxQuotaCalls == 101
MaxWindowCalls == 2

(***************************************************************************)
(* Inputs.                                                                 *)
(***************************************************************************)
None == "<None>"

Usernames == { <<"a">>, <<"4", "2", "9">> }

CheckerInputs ==
  { << <<"a">>, <<"0", "9", ":", "0", "0">> >>,
    << <<"4", "2", "9">>, <<"0", "9", ":", "0", "0">> >>,
    << <<"a">>, <<"9", ":", "0", "0">> >> }

RegistryInputs ==
  { << <<"a">>, <<"0", "9", ":", "0", "0">> >>,
    << <<"a">>, <<"9", ":", "0", "0">> >>,
    << <<"4", "2", "9">>, <<"0", "9", ":", "0", "0">> >>,
    << <<"a">>, <<"2", "4", ":", "0", "0">> >>,
    << <<"a">>, <<"0", "9", "0", "0">> >>,
    << <<"4", "2", "9">>, <<"0", "9", ":", "6", "0">> >> }

MinPostsInputs == { 0, 1 }

CheckerMinPostsInputs == { 1, 2 }

MessageInputs == { None, "post!" }

ClockTimes == { <<9, 0>>, <<12, 30>> }

PokeClients == { None, "PokeAPI" }

(***************************************************************************)
(* A reading of datetime.now(): utc is the instant, in half seconds since  *)
(* midnight UTC of day 0, offset the server's timezone offset in seconds.  *)
(***************************************************************************)
Instant(utc, offset) == [utc |-> utc, offset |-> offset]

ClientNows == { Instant(2 * (2 * 86400 + 45296) + 1, 0) }

WindowNows ==
  { Instant(2 * (2 * 86400 + sec) + half, off) :
      sec \in { 0, 29, 30, 45296, 86399 }, half \in { 0, 1 },
      off \in { 0, 3600, 19800, 0 - 18000 } }

(***************************************************************************)
(* Text helpers.                                                           *)
(***************************************************************************)
DigitChars == <<"0", "1", "2", "3", "4", "5", "6", "7", "8", "9">>

IsDigit(c) == \E i \in 1 .. 10 : DigitChars[i] = c

IsDigitIn(c, lo, hi) == \E i \in (lo + 1) .. (hi + 1) : DigitChars[i] = c

RECURSIVE Str(_)
Str(n) == IF n < 10 THEN <<DigitChars[n + 1]>>
          ELSE Str(n \div 10) \o <<DigitChars[(n % 10) + 1]>>

Contains429(s) ==
  \E i \in 1 .. (Len(s) - 2) : s[i] = "4" /\ s[i + 1] = "2" /\ s[i + 2] = "9"

RECURSIVE Sum(_)
Sum(s) == IF s = <<>> THEN 0 ELSE Head(s) + Sum(Tail(s))

(***************************************************************************)
(* datetime.strptime(reminder_time, "%H:%M"): the format compiles to the   *)
(* regular expression (2[0-3]|[0-1]\d|\d):([0-5]\d|\d), matched at the     *)
(* start of the string; ValueError unless it matches and the match ends at *)
(* the end of the string.  TRUE when the call returns, FALSE on ValueError.*)
(***************************************************************************)
MatchesHour(h) ==
  \/ Len(h) = 2 /\ h[1] = "2" /\ IsDigitIn(h[2], 0, 3)
  \/ Len(h) = 2 /\ IsDigitIn(h[1], 0, 1) /\ IsDigit(h[2])
  \/ Len(h) = 1 /\ IsDigit(h[1])

MatchesMinute(m) ==
  \/ Len(m) = 2 /\ IsDigitIn(m[1], 0, 5) /\ IsDigit(m[2])
  \/ Len(m) = 1 /\ IsDigit(m[1])

StrptimeHM(s) ==
  \E i \in 1 .. Len(s) :
    /\ s[i] = ":"
    /\ MatchesHour(SubSeq(s, 1, i - 1))
    /\ MatchesMinute(SubSeq(s, i + 1, Len(s)))

(***************************************************************************)
(* datetime.now().strftime("%H:%M") for the clock reading <<hour, minute>>.*)
(***************************************************************************)
StrftimeHM(clk) ==
  << DigitChars[(clk[1] \div 10) + 1], DigitChars[(clk[1] % 10) + 1], ":",
     DigitChars[(clk[2] \div 10) + 1], DigitChars[(clk[2] % 10) + 1] >>

(***************************************************************************)
(* PostingReminder.setup_daily_reminder: the id, the generated default     *)
(* message, the stored configuration.  created_at (a timestamp no          *)
(* operation reads) is left out of the configuration.                      *)
(***************************************************************************)
ReminderId(username, reminder_time) ==
  <<"daily_">> \o username \o <<"_">> \o reminder_time

DefaultMessage(reminder_time, min_posts) ==
  [kind |-> "default", text |-> "", reminder_time |-> reminder_time,
   min_posts |-> min_posts]

CustomMessage(message) ==
  [kind |-> "custom", text |-> message, reminder_time |-> <<>>, min_posts |-> 0]

StoredMessage(message, reminder_time, min_posts) ==
  IF message = None \/ message = ""
  THEN DefaultMessage(reminder_time, min_posts)
  ELSE CustomMessage(message)

NewConfig(username, reminder_time, min_posts, message) ==
  [username |-> username, reminder_time |-> reminder_time,
   min_posts |-> min_posts,
   message |-> StoredMessage(message, reminder_time, min_posts),
   active |-> TRUE]

(***************************************************************************)
(* self.reminders is a dict: a sequence of [id, config] in insertion       *)
(* order, holding each key once.                                           *)
(***************************************************************************)
HasKey(reg, id) == \E i \in 1 .. Len(reg) : reg[i].id = id

IndexOf(reg, id) == CHOOSE i \in 1 .. Len(reg) : reg[i].id = id

Put_AlwaysAppend(reg, id, config) ==
  Append(reg, [id |-> id, config |-> config])

Put(reg, id, config) ==
  IF HasKey(reg, id)
  THEN [reg EXCEPT ![IndexOf(reg, id)].config = config]
  ELSE Append(reg, [id |-> id, config |-> config])

SetActive_AllEntries(reg, id, flag) ==
  [i \in 1 .. Len(reg) |-> [reg[i] EXCEPT !.config.active = flag]]

SetActive(reg, id, flag) ==
  [reg EXCEPT ![IndexOf(reg, id)].config.active = flag]

(***************************************************************************)
(* The provider's answers to requests.get, and the delivery service's      *)
(* answer to the POST of PokeAPI.send_message.                             *)
(***************************************************************************)
Response(status, has_data, buckets, text) ==
  [status |-> status, has_data |-> has_data, buckets |-> buckets, text |-> text]

NoResponse == Response(0, FALSE, <<>>, <<>>)

Bodies == { <<"x">>, <<"4", "2", "9">> }

LookupResponses ==
  { Response(200, TRUE, <<>>, <<>>), Response(200, FALSE, <<>>, <<>>) }
  \cup { Response(429, FALSE, <<>>, <<"x">>) }
  \cup { Response(500, FALSE, <<>>, b) : b \in Bodies }

CountResponses ==
  { Response(200, TRUE, b, <<>>) : b \in { <<>>, <<0>>, <<1>>, <<1, 1>> } }
  \cup { Response(200, FALSE, <<>>, <<>>) }
  \cup { Response(429, FALSE, <<>>, <<"x">>) }
  \cup { Response(500, FALSE, <<>>, b) : b \in Bodies }

PokeResponses == { "delivered", "request_failed" }

CheckerLookupResponses ==
  { Response(200, TRUE, <<>>, <<>>), Response(500, FALSE, <<>>, <<"x">>) }

CheckerCountResponses ==
  { Response(200, TRUE, b, <<>>) : b \in { <<>>, <<1>>, <<1, 1>> } }
  \cup { Response(429, FALSE, <<>>, <<"x">>) }

ProviderId(username) == <<"id:">> \o username

(***************************************************************************)
(* TwitterCounter.  A client state c is                                    *)
(*   [api_calls_made, user_id_cache, http_requests, printed]               *)
(* where http_requests counts the requests.get calls issued and printed    *)
(* holds what _log_api_call printed during the operation under way: for    *)
(* each call its number and whether the warning and the critical line      *)
(* were printed.                                                           *)
(***************************************************************************)
WarnThreshold == 90

CriticalThreshold == 100

LogLines(n) ==
  [n |-> n,
   warning |-> n >= WarnThreshold,
   critical |-> ~(n >= WarnThreshold) /\ n >= CriticalThreshold]

LogApiCall_NoCount(c) == c

LogApiCall_Twice(c) == [c EXCEPT !.api_calls_made = @ + 2]

LogApiCall(c) ==
  [c EXCEPT !.api_calls_made = @ + 1,
            !.printed = Append(@, LogLines(c.api_calls_made + 1))]

HttpGet(c) == [c EXCEPT !.http_requests = @ + 1]

CachePut_Nothing(cache, username, user_id) == cache

CachePut(cache, username, user_id) ==
  [x \in (DOMAIN cache) \cup {username} |->
     IF x = username THEN user_id ELSE cache[x]]

ApiError(resp) == <<"API Error ">> \o Str(resp.status) \o <<": ">> \o resp.text

GetUserIdCall(c, username, resp) ==
  IF username \in DOMAIN c.user_id_cache
  THEN [c |-> c, ok |-> TRUE, user_id |-> c.user_id_cache[username],
        error |-> <<>>, lookups |-> 0, statuses |-> {}]
  ELSE
    LET c1 == HttpGet(LogApiCall(c))
        wrap(e) == <<"Error fetching user ID for '">> \o username
                     \o <<"': ">> \o e
    IN IF resp.status = 200
       THEN IF resp.has_data
            THEN [c |-> [c1 EXCEPT !.user_id_cache =
                           CachePut(@, username, ProviderId(username))],
                  ok |-> TRUE, user_id |-> ProviderId(username),
                  error |-> <<>>, lookups |-> 1, statuses |-> {resp.status}]
            ELSE [c |-> c1, ok |-> FALSE, user_id |-> <<>>,
                  error |-> wrap(<<"User '">> \o username \o <<"' not found">>),
                  lookups |-> 1, statuses |-> {resp.status}]
       ELSE [c |-> c1, ok |-> FALSE, user_id |-> <<>>,
             error |-> wrap(ApiError(resp)),
             lookups |-> 1, statuses |-> {resp.status}]

(***************************************************************************)
(* The time window of get_tweet_count_24h.  A naive datetime is a count of *)
(* half seconds of local wall-clock time; the calendar date of             *)
(* %Y-%m-%d is written as the number of the day.                           *)
(***************************************************************************)
BufferSeconds == 30

WindowHours == 24

LocalNow(now) == now.utc + 2 * now.offset

ReplaceMicrosecond(dt) == dt - (dt % 2)

TwoDigits(n) == <<DigitChars[(n \div 10) + 1], DigitChars[(n % 10) + 1]>>

StrftimeRFC3339(dt) ==
  LET sec == dt \div 2
      tod == sec % 86400
  IN Str(sec \div 86400) \o <<"T">> \o TwoDigits(tod \div 3600) \o <<":">>
       \o TwoDigits((tod % 3600) \div 60) \o <<":">>
       \o TwoDigits(tod % 60) \o <<"Z">>

TimeWindow(local_now) ==
  LET end_time == ReplaceMicrosecond(local_now) - 2 * BufferSeconds
      start_time == end_time - 2 * 3600 * WindowHours
  IN [start_time |-> StrftimeRFC3339(start_time),
      end_time |-> StrftimeRFC3339(end_time)]

RateLimitPrefix ==
  "Rate limit exceeded. Please wait 15 minutes before trying again. Error: "

CountErrorMessage(e) ==
  IF Contains429(e)
  THEN <<RateLimitPrefix>> \o e
  ELSE <<"Error fetching tweet count: ">> \o e

TweetCount(resp) ==
  IF resp.has_data /\ Len(resp.buckets) > 0 THEN Sum(resp.buckets) ELSE 0

GetTweetCount24hCall(c, username, lresp, cresp) ==
  LET r1 == GetUserIdCall(c, username, lresp)
  IN IF ~r1.ok
     THEN [c |-> r1.c, ok |-> FALSE, tweet_count_24h |-> 0,
           error |-> CountErrorMessage(r1.error),
           lookups |-> r1.lookups, counts |-> 0, statuses |-> r1.statuses]
     ELSE
       LET c2 == HttpGet(LogApiCall(r1.c))
       IN IF cresp.status = 200
          THEN [c |-> c2, ok |-> TRUE, tweet_count_24h |-> TweetCount(cresp),
                error |-> <<>>, lookups |-> r1.lookups, counts |-> 1,
                statuses |-> r1.statuses \cup {cresp.status}]
          ELSE [c |-> c2, ok |-> FALSE, tweet_count_24h |-> 0,
                error |-> CountErrorMessage(ApiError(cresp)),
                lookups |-> r1.lookups, counts |-> 1,
                statuses |-> r1.statuses \cup {cresp.status}]

(***************************************************************************)
(* PokeAPI.send_message: the response body, or the error dictionary built  *)
(* in its except clause; it raises nothing.                                *)
(***************************************************************************)
SendMessage(message, presp) ==
  IF presp = "delivered"
  THEN [error |-> FALSE, message |-> "ok"]
  ELSE [error |-> TRUE, message |-> "Request failed"]

(***************************************************************************)
(* PostingReminder.check_and_send_reminders.  A pass state ps is           *)
(*   [c, results, sends, fetched]                                          *)
(* c the client state, results the list being built, sends the             *)
(* send_message calls made and fetched the get_tweet_count_24h calls made, *)
(* each with the id of the entry it was made for.                          *)
(***************************************************************************)
Due_AnyTime(config, current_time) == config.active

Due_IgnoreActive(config, current_time) == config.reminder_time = current_time

Due(config, current_time) ==
  config.active /\ config.reminder_time = current_time

BelowGoal_AtOrBelow(tweet_count, min_posts) == tweet_count <= min_posts

BelowGoal(tweet_count, min_posts) == tweet_count < min_posts

HasError(result) == "error" \in DOMAIN result

Evaluate(ps, entry, client, r, presp) ==
  LET cfg == entry.config
      base == [reminder_id |-> entry.id, username |-> cfg.username]
      fetch == [reminder_id |-> entry.id, ok |-> r.ok,
                tweet_count |-> r.tweet_count_24h]
      ps1 == [ps EXCEPT !.c = r.c, !.fetched = Append(@, fetch)]
  IN IF r.ok
     THEN IF BelowGoal(r.tweet_count_24h, cfg.min_posts)
          THEN IF client # None
               THEN [ps1 EXCEPT
                       !.sends = Append(@, [reminder_id |-> entry.id,
                                            message |-> cfg.message,
                                            failed |-> presp # "delivered"]),
                       !.results = Append(@, base @@
                          [sent |-> TRUE, tweet_count |-> r.tweet_count_24h,
                           poke_response |-> SendMessage(cfg.message, presp)])]
               ELSE [ps1 EXCEPT !.results = Append(@, base @@
                          [sent |-> FALSE, tweet_count |-> r.tweet_count_24h,
                           error |-> <<"No Poke client configured">>])]
          ELSE [ps1 EXCEPT !.results = Append(@, base @@
                     [sent |-> FALSE, tweet_count |-> r.tweet_count_24h,
                      reason |-> "Tweet goal already met"])]
     ELSE [ps1 EXCEPT !.results = Append(@, base @@
                [sent |-> FALSE, error |-> r.error])]

EntryOutcomes(ps, entry, client, E) ==
  LET u == entry.config.username
      Ls == IF u \in DOMAIN ps.c.user_id_cache THEN {NoResponse} ELSE E.lookup
  IN UNION { LET Cs == IF GetUserIdCall(ps.c, u, l).ok
                       THEN E.count ELSE {NoResponse}
             IN UNION { LET r == GetTweetCount24hCall(ps.c, u, l, cr)
                            Ps == IF /\ r.ok
                                     /\ BelowGoal(r.tweet_count_24h, entry.config.min_posts)
                                     /\ client # None
                                  THEN E.poke ELSE {"unused"}
                        IN { Evaluate(ps, entry, client, r, p) : p \in Ps }
                        : cr \in Cs }
             : l \in Ls }

RECURSIVE PassOutcomes_AbortOnError(_, _, _, _, _, _)
PassOutcomes_AbortOnError(reg, i, current_time, client, E, ps) ==
  IF i > Len(reg) THEN {ps}
  ELSE IF ~Due(reg[i].config, current_time)
       THEN PassOutcomes_AbortOnError(reg, i + 1, current_time, client, E, ps)
       ELSE UNION { IF ps1.fetched[Len(ps1.fetched)].ok
                    THEN PassOutcomes_AbortOnError(reg, i + 1, current_time,
                                                   client, E, ps1)
                    ELSE {ps1}
                    : ps1 \in EntryOutcomes(ps, reg[i], client, E) }

RECURSIVE PassOutcomes(_, _, _, _, _, _)
PassOutcomes(reg, i, current_time, client, E, ps) ==
  IF i > Len(reg) THEN {ps}
  ELSE IF ~Due(reg[i].config, current_time)
       THEN PassOutcomes(reg, i + 1, current_time, client, E, ps)
       ELSE UNION { PassOutcomes(reg, i + 1, current_time, client, E, ps1)
                    : ps1 \in EntryOutcomes(ps, reg[i], client, E) }

Report_CountAll(current_time, results, reg) ==
  [check_time |-> current_time, results |-> results,
   total_reminders |-> Len(reg), checked |-> Len(results)]

Report(current_time, results, reg) ==
  [check_time |-> current_time, results |-> results,
   total_reminders |-> Len(reg),
   checked |-> Cardinality({ i \in 1 .. Len(results) : ~HasError(results[i]) })]

(***************************************************************************)
(* State.                                                                  *)
(*   reminders, poke_client       PostingReminder                          *)
(*   api_calls_made, user_id_cache  TwitterCounter                         *)
(*   http_requests                requests.get calls issued so far         *)
(*   last, prev                   the last operation called, with its      *)
(*                                arguments and what it returned, and a    *)
(*                                summary of the one before it             *)
(***************************************************************************)
VARIABLES reminders, poke_client, api_calls_made, user_id_cache,
          http_requests, last, prev

vars == <<reminders, poke_client, api_calls_made, user_id_cache,
          http_requests, last, prev>>

counterVars == <<api_calls_made, user_id_cache, http_requests>>

Counter ==
  [api_calls_made |-> api_calls_made, user_id_cache |-> user_id_cache,
   http_requests |-> http_requests, printed |-> <<>>]

SetCounter(c) ==
  /\ api_calls_made' = c.api_calls_made
  /\ user_id_cache' = c.user_id_cache
  /\ http_requests' = c.http_requests

Summary(op) ==
  IF op.op = "get_user_id"
  THEN [op |-> op.op, username |-> op.username, ok |-> op.ok,
        lookups |-> op.lookups, calls |-> op.calls]
  ELSE [op |-> "other"]

InitWith(client) ==
  /\ reminders = <<>>
  /\ poke_client = client
  /\ api_calls_made = 0
  /\ user_id_cache = <<>>
  /\ http_requests = 0
  /\ last = [op |-> "init"]
  /\ prev = [op |-> "other"]

Init == \E client \in PokeClients : InitWith(client)

SetupDailyReminder(username, reminder_time, min_posts, message) ==
  LET id == ReminderId(username, reminder_time)
      valid == StrptimeHM(reminder_time)
      call == [op |-> "setup", username |-> username,
               reminder_time |-> reminder_time, min_posts |-> min_posts,
               message |-> message, reminder_id |-> id,
               existed |-> HasKey(reminders, id),
               before_len |-> Len(reminders)]
  IN /\ (valid /\ ~HasKey(reminders, id)) => Len(reminders) < MaxReminders
     /\ IF valid
        THEN /\ reminders' = Put(reminders, id,
                    NewConfig(username, reminder_time, min_posts, message))
             /\ last' = call @@ [success |-> TRUE]
        ELSE /\ reminders' = reminders
             /\ last' = call @@ [success |-> FALSE]
     /\ prev' = Summary(last)
     /\ UNCHANGED <<poke_client, counterVars>>

DisableReminder(reminder_id) ==
  /\ IF HasKey(reminders, reminder_id)
     THEN /\ reminders' = SetActive(reminders, reminder_id, FALSE)
          /\ last' = [op |-> "disable", reminder_id |-> reminder_id,
                      success |-> TRUE]
     ELSE /\ reminders' = reminders
          /\ last' = [op |-> "disable", reminder_id |-> reminder_id,
                      success |-> FALSE]
  /\ prev' = Summary(last)
  /\ UNCHANGED <<poke_client, counterVars>>

CheckAndSendReminders(clk, E) ==
  LET current_time == StrftimeHM(clk)
      ps0 == [c |-> Counter, results |-> <<>>, sends |-> <<>>, fetched |-> <<>>]
  IN \E ps \in PassOutcomes(reminders, 1, current_time, poke_client, E, ps0) :
       /\ ps.c.api_calls_made <= MaxCalls
       /\ SetCounter(ps.c)
       /\ last' = [op |-> "check",
                   report |-> Report(current_time, ps.results, reminders),
                   sends |-> ps.sends, fetched |-> ps.fetched]
       /\ prev' = Summary(last)
       /\ UNCHANGED <<reminders, poke_client>>

GetUserId(username, resp) ==
  LET r == GetUserIdCall(Counter, username, resp)
  IN /\ SetCounter(r.c)
     /\ last' = [op |-> "get_user_id", username |-> username, ok |-> r.ok,
                 lookups |-> r.c.http_requests - http_requests,
                 calls |-> r.c.api_calls_made - api_calls_made,
                 printed |-> r.c.printed]
     /\ prev' = Summary(last)
     /\ UNCHANGED <<reminders, poke_client>>

GetTweetCount24h(username, lresp, cresp, now) ==
  LET r == GetTweetCount24hCall(Counter, username, lresp, cresp)
      resolved == GetUserIdCall(Counter, username, lresp).ok
  IN /\ SetCounter(r.c)
     /\ last' = [op |-> "get_tweet_count_24h", username |-> username,
                 ok |-> r.ok, error |-> r.error,
                 tweet_count_24h |-> r.tweet_count_24h,
                 statuses |-> r.statuses, lookups |-> r.lookups,
                 counts |-> r.counts,
                 calls |-> r.c.api_calls_made - api_calls_made,
                 requests |-> r.c.http_requests - http_requests,
                 cached |-> username \in DOMAIN user_id_cache,
                 resolved |-> resolved, printed |-> r.c.printed,
                 now |-> now,
                 params |-> IF resolved THEN TimeWindow(LocalNow(now))
                            ELSE [start_time |-> <<>>, end_time |-> <<>>]]
     /\ prev' = Summary(last)
     /\ UNCHANGED <<reminders, poke_client>>

(***************************************************************************)
(* The registry alone: register and disable, over the (username,           *)
(* reminder_time) pairs of RegistryInputs.                                 *)
(***************************************************************************)
NextRegistry ==
  \/ \E ut \in RegistryInputs, n \in MinPostsInputs, m \in MessageInputs :
        SetupDailyReminder(ut[1], ut[2], n, m)
  \/ \E ut \in RegistryInputs : DisableReminder(ReminderId(ut[1], ut[2]))

SpecRegistry == InitWith(None) /\ [][NextRegistry]_vars

(***************************************************************************)
(* The registry with the checker.                                          *)
(***************************************************************************)
CheckerEnv ==
  [lookup |-> CheckerLookupResponses, count |-> CheckerCountResponses,
   poke |-> PokeResponses]

NextChecker ==
  \/ \E ut \in CheckerInputs, n \in CheckerMinPostsInputs :
        SetupDailyReminder(ut[1], ut[2], n, None)
  \/ \E ut \in CheckerInputs : DisableReminder(ReminderId(ut[1], ut[2]))
  \/ \E clk \in ClockTimes : CheckAndSendReminders(clk, CheckerEnv)

SpecChecker == Init /\ [][NextChecker]_vars

(***************************************************************************)
(* The metrics client alone: its two operations, for the usernames of U,   *)
(* the provider's answers of LR and CR and the clock readings of Nows, up  *)
(* to cap calls.                                                           *)
(***************************************************************************)
ClientStep(U, LR, CR, Nows, cap) ==
  \/ \E u \in U :
       \E l \in (IF u \in DOMAIN user_id_cache THEN {NoResponse} ELSE LR) :
         /\ GetUserId(u, l)
         /\ api_calls_made' <= cap
  \/ \E u \in U :
       \E l \in (IF u \in DOMAIN user_id_cache THEN {NoResponse} ELSE LR) :
         \E cr \in (IF GetUserIdCall(Counter, u, l).ok
                    THEN CR ELSE {NoResponse}) :
           \E now \in Nows :
             /\ GetTweetCount24h(u, l, cr, now)
             /\ api_calls_made' <= cap

NextClient ==
  ClientStep(Usernames, LookupResponses, CountResponses, ClientNows, MaxCalls)

SpecClient == InitWith(None) /\ [][NextClient]_vars

(***************************************************************************)
(* The metrics client up to and past its quota of calls.                   *)
(***************************************************************************)
NextQuota ==
  ClientStep({ <<"a">> }, CheckerLookupResponses, CheckerCountResponses,
             ClientNows, MaxQuotaCalls)

SpecQuota == InitWith(None) /\ [][NextQuota]_vars

(***************************************************************************)
(* The metrics client over clock readings and timezone offsets.            *)
(***************************************************************************)
NextWindow ==
  ClientStep({ <<"a">> }, CheckerLookupResponses, CheckerCountResponses,
             WindowNows, MaxWindowCalls)

SpecWindow == InitWith(None) /\ [][NextWindow]_vars

(***************************************************************************)
(* The whole program.                                                      *)
(***************************************************************************)
Next == NextRegistry \/ NextChecker \/ NextClient \/ NextQuota \/ NextWindow

Spec == Init /\ [][Next]_vars

(***************************************************************************)
(* Properties.                                                             *)
(***************************************************************************)
Indices(seq) == 1 .. Len(seq)

IsCheck == last.op = "check"

NoTimeMatches ==
  \A i \in Indices(reminders) :
    reminders[i].config.reminder_time # last.report.check_time

\* C1 (as stated): a check pass at a minute that matches no registered
\* reminder_time makes no send_message call and reports checked equal to
\* total_reminders.
C1_CheckedEqualsTotal ==
  (IsCheck /\ NoTimeMatches) =>
    /\ last.sends = <<>>
    /\ last.report.checked = last.report.total_reminders

\* C1 (amended): a check pass at a minute that matches no registered
\* reminder_time makes no send_message call and returns a report with no
\* results, checked = 0 and total_reminders = the number of registry entries.
C1_NoMatchReportsNothing ==
  (IsCheck /\ NoTimeMatches) =>
    /\ last.sends = <<>>
    /\ last.fetched = <<>>
    /\ last.report.results = <<>>
    /\ last.report.checked = 0
    /\ last.report.total_reminders = Len(reminders)

C1_Witness ==
  /\ IsCheck
  /\ NoTimeMatches
  /\ \E i \in Indices(reminders) : reminders[i].config.active

StrictHHMM(s) ==
  /\ Len(s) = 5
  /\ s[3] = ":"
  /\ \/ IsDigitIn(s[1], 0, 1) /\ IsDigit(s[2])
     \/ s[1] = "2" /\ IsDigitIn(s[2], 0, 3)
  /\ IsDigitIn(s[4], 0, 5)
  /\ IsDigit(s[5])

\* C2: setup_daily_reminder succeeds exactly for two-digit HH:MM strings
\* (00-23, 00-59); for any other string it returns success = false and
\* stores no entry.
C2_SuccessIffStrictTime ==
  last.op = "setup" =>
    /\ last.success <=> StrictHHMM(last.reminder_time)
    /\ ~StrictHHMM(last.reminder_time) => ~HasKey(reminders, last.reminder_id)

TwoLookupsOfOneUser ==
  /\ last.op = "get_user_id"
  /\ prev.op = "get_user_id"
  /\ last.username = prev.username

\* C3 (as stated): two successive get_user_id(U) calls issue at most one
\* lookup request and raise api_calls_made by at most one, in total.
C3_AtMostOneLookup ==
  TwoLookupsOfOneUser =>
    /\ prev.lookups + last.lookups <= 1
    /\ prev.calls + last.calls <= 1

\* C3 (amended): each get_user_id call issues at most one lookup request and
\* raises api_calls_made by as much; when the first of two successive calls
\* for U returned an id, the second issues no request, returns an id and
\* leaves api_calls_made alone, so the two issue at most one in total.
C3_AtMostOneLookupAfterSuccess ==
  /\ last.op = "get_user_id" => last.lookups <= 1 /\ last.calls = last.lookups
  /\ (TwoLookupsOfOneUser /\ prev.ok) =>
       /\ last.lookups = 0
       /\ last.calls = 0
       /\ last.ok
       /\ prev.lookups + last.lookups <= 1
       /\ prev.calls + last.calls <= 1

C3_Witness ==
  /\ TwoLookupsOfOneUser
  /\ prev.ok
  /\ prev.lookups = 1

RateLimited(error) == Len(error) > 0 /\ error[1] = RateLimitPrefix

\* C4: a failed get_tweet_count_24h is reported as 'Rate limit exceeded' if
\* and only if the provider answered one of its requests with status 429.
C4_RateLimitedIff429 ==
  (last.op = "get_tweet_count_24h" /\ ~last.ok) =>
    (RateLimited(last.error) <=> 429 \in last.statuses)

SamePair(i, j) ==
  /\ reminders[i].config.username = reminders[j].config.username
  /\ reminders[i].config.reminder_time = reminders[j].config.reminder_time

\* C5: the registry holds at most one entry per (username, reminder_time);
\* after a successful setup_daily_reminder the one entry of its pair is
\* active and holds the call's min_posts and message, and a call for a pair
\* already registered does not change the number of entries.
C5_OneEntryPerPair ==
  /\ \A i, j \in Indices(reminders) : SamePair(i, j) => i = j
  /\ (last.op = "setup" /\ last.success) =>
       /\ \E i \in Indices(reminders) :
            /\ reminders[i].config.username = last.username
            /\ reminders[i].config.reminder_time = last.reminder_time
            /\ reminders[i].config.active
            /\ reminders[i].config.min_posts = last.min_posts
            /\ reminders[i].config.message =
                 IF last.message = None
                 THEN DefaultMessage(last.reminder_time, last.min_posts)
                 ELSE CustomMessage(last.message)
       /\ last.existed => Len(reminders) = last.before_len

C5_Witness ==
  /\ last.op = "setup"
  /\ last.success
  /\ last.existed
  /\ Len(reminders) = 2

ResultsFor(id) ==
  { i \in Indices(last.report.results) : last.report.results[i].reminder_id = id }

SendsFor(id) ==
  { i \in Indices(last.sends) : last.sends[i].reminder_id = id }

ConfigOf(id) ==
  reminders[CHOOSE i \in Indices(reminders) : reminders[i].id = id].config

\* C6: with a delivery client, for every entry of a pass whose count was
\* fetched: count < min_posts gives exactly one send_message call, with the
\* entry's message, and a result sent = true without reason; count >=
\* min_posts gives no send_message call and a result sent = false with the
\* goal-met reason.
C6_SendIffBelowGoal ==
  (IsCheck /\ poke_client # None) =>
    \A k \in Indices(last.fetched) :
      LET f == last.fetched[k]
          cfg == ConfigOf(f.reminder_id)
      IN f.ok =>
           /\ Cardinality(ResultsFor(f.reminder_id)) = 1
           /\ \A i \in ResultsFor(f.reminder_id) :
                LET res == last.report.results[i]
                IN IF f.tweet_count < cfg.min_posts
                   THEN /\ Cardinality(SendsFor(f.reminder_id)) = 1
                        /\ \A j \in SendsFor(f.reminder_id) :
                             last.sends[j].message = cfg.message
                        /\ res.sent
                        /\ "reason" \notin DOMAIN res
                   ELSE /\ SendsFor(f.reminder_id) = {}
                        /\ ~res.sent
                        /\ "reason" \in DOMAIN res
                        /\ res.reason = "Tweet goal already met"

C6_Witness ==
  /\ IsCheck
  /\ poke_client # None
  /\ \E k \in Indices(last.fetched) :
       /\ last.fetched[k].ok
       /\ last.fetched[k].tweet_count
            < ConfigOf(last.fetched[k].reminder_id).min_posts
  /\ \E k \in Indices(last.fetched) :
       /\ last.fetched[k].ok
       /\ last.fetched[k].tweet_count
            >= ConfigOf(last.fetched[k].reminder_id).min_posts

DueIndices ==
  { i \in Indices(reminders) :
      /\ reminders[i].config.active
      /\ reminders[i].config.reminder_time = last.report.check_time }

\* C7: a pass always yields a report holding exactly one result per active
\* entry whose reminder_time is the current HH:MM, a failed fetch or a failed
\* delivery included: the entry whose fetch failed carries an error, the
\* entry whose delivery failed carries the failure in its poke_response, and
\* every other entry is evaluated from its own count.
C7_FailuresAreIsolated ==
  IsCheck =>
    /\ Len(last.report.results) = Cardinality(DueIndices)
    /\ Len(last.fetched) = Cardinality(DueIndices)
    /\ \A i \in DueIndices : Cardinality(ResultsFor(reminders[i].id)) = 1
    /\ \A k \in Indices(last.fetched) :
         LET f == last.fetched[k]
             res == last.report.results[k]
             cfg == ConfigOf(f.reminder_id)
         IN /\ res.reminder_id = f.reminder_id
            /\ res.username = cfg.username
            /\ ~f.ok => (HasError(res) /\ ~res.sent)
            /\ f.ok =>
                 /\ res.tweet_count = f.tweet_count
                 /\ res.sent <=>
                      (f.tweet_count < cfg.min_posts /\ poke_client # None)
                 /\ f.tweet_count >= cfg.min_posts =>
                      ("reason" \in DOMAIN res /\ ~HasError(res))
    /\ \A j \in Indices(last.sends) :
         \A i \in ResultsFor(last.sends[j].reminder_id) :
           /\ last.report.results[i].sent
           /\ last.report.results[i].poke_response.error = last.sends[j].failed

C7_Witness ==
  /\ IsCheck
  /\ Len(last.fetched) = 2
  /\ ~last.fetched[1].ok
  /\ last.fetched[2].ok
  /\ ~HasError(last.report.results[2])

FetchedOk == { k \in Indices(last.fetched) : last.fetched[k].ok }

Undelivered ==
  { k \in FetchedOk :
      /\ last.fetched[k].tweet_count
           < ConfigOf(last.fetched[k].reminder_id).min_posts
      /\ poke_client = None }

\* C8 (as stated): checked is the number of entries whose count was fetched
\* in the pass; an entry below its goal that was not delivered for want of a
\* delivery client has sent = false, a reason, and no error.
C8_CheckedCountsFetched ==
  IsCheck =>
    /\ last.report.checked = Cardinality(FetchedOk)
    /\ \A k \in Undelivered :
         /\ ~last.report.results[k].sent
         /\ "reason" \in DOMAIN last.report.results[k]
         /\ ~HasError(last.report.results[k])

\* C8 (amended): checked is the number of results that carry no error: the
\* entries whose count was fetched, less those below their goal that were
\* not delivered for want of a delivery client; such an entry has
\* sent = false, its tweet_count and the error 'No Poke client configured'.
C8_CheckedCountsErrorFree ==
  IsCheck =>
    /\ last.report.checked = Cardinality(FetchedOk \ Undelivered)
    /\ last.report.checked =
         Cardinality({ i \in Indices(last.report.results) :
                         "error" \notin DOMAIN last.report.results[i] })
    /\ \A k \in Undelivered :
         /\ ~last.report.results[k].sent
         /\ last.report.results[k].tweet_count = last.fetched[k].tweet_count
         /\ "reason" \notin DOMAIN last.report.results[k]
         /\ "error" \in DOMAIN last.report.results[k]
         /\ last.report.results[k].error = <<"No Poke client configured">>

C8_Witness ==
  /\ IsCheck
  /\ Undelivered # {}
  /\ FetchedOk \ Undelivered # {}

\* C9: disable_reminder(id) for an id in the registry sets that entry's
\* active flag to false and changes nothing else (same entries, same order,
\* same other fields); for an id not in the registry it returns a failure
\* and leaves the registry unchanged.
C9_DisableFrame ==
  [][ last'.op = "disable" =>
        IF \E i \in Indices(reminders) : reminders[i].id = last'.reminder_id
        THEN /\ last'.success
             /\ Len(reminders') = Len(reminders)
             /\ \A i \in Indices(reminders) :
                  IF reminders[i].id = last'.reminder_id
                  THEN reminders'[i] =
                         [reminders[i] EXCEPT !.config.active = FALSE]
                  ELSE reminders'[i] = reminders[i]
        ELSE /\ ~last'.success
             /\ reminders' = reminders ]_vars

C9_Witness ==
  /\ last.op = "disable"
  /\ last.success
  /\ Len(reminders) = 2
  /\ \E i \in Indices(reminders) :
       reminders[i].id # last.reminder_id /\ reminders[i].config.active

\* C10: every stored reminder configuration has min_posts >= 1.
C10_MinPostsPositive ==
  \A i \in Indices(reminders) : reminders[i].config.min_posts >= 1

IsClientCall == last.op = "get_user_id" \/ last.op = "get_tweet_count_24h"

\* C11: api_calls_made always equals the number of requests the client has
\* issued, failed ones included; no step lowers it, and a get_user_id call
\* for a cached username leaves it unchanged.
C11_CallsEqualRequests ==
  /\ [](api_calls_made = http_requests)
  /\ [][ /\ api_calls_made' >= api_calls_made
         /\ (last'.op = "get_user_id" /\ last'.username \in DOMAIN user_id_cache)
              => api_calls_made' = api_calls_made ]_vars

C11_Witness ==
  /\ last.op = "get_user_id"
  /\ last.username \in DOMAIN user_id_cache
  /\ last.lookups = 0
  /\ prev.op = "get_user_id"
  /\ ~prev.ok
  /\ api_calls_made >= 3

\* C12 (as stated): every get_tweet_count_24h invocation issues exactly one
\* counting request, plus one lookup request exactly when the username was
\* not cached, and raises api_calls_made once per request.
C12_AlwaysOneCountingRequest ==
  last.op = "get_tweet_count_24h" =>
    /\ last.counts = 1
    /\ last.lookups = (IF last.cached THEN 0 ELSE 1)
    /\ last.calls = last.lookups + last.counts

\* C12 (amended): every get_tweet_count_24h invocation issues one lookup
\* request exactly when the username was not cached, and one counting
\* request exactly when the identifier was resolved (from the cache or by a
\* successful lookup), none when the lookup failed; api_calls_made rises
\* once per request.
C12_OneCountingRequestIfResolved ==
  last.op = "get_tweet_count_24h" =>
    /\ last.lookups = (IF last.cached THEN 0 ELSE 1)
    /\ last.counts = (IF last.resolved THEN 1 ELSE 0)
    /\ last.cached => last.resolved
    /\ last.calls = last.lookups + last.counts
    /\ last.requests = last.calls

C12_Witness ==
  /\ last.op = "get_tweet_count_24h"
  /\ ~last.cached
  /\ ~last.resolved
  /\ last.calls = 1
  /\ api_calls_made >= 3

\* C13: the n-th call prints the approaching-limit warning when n >= 90 and
\* the critical exceeded-limit error when n >= 100.
C13_WarningAndCritical ==
  IsClientCall =>
    \A k \in Indices(last.printed) :
      /\ last.printed[k].n >= 90 => last.printed[k].warning
      /\ last.printed[k].n >= 100 => last.printed[k].critical

DigitValue(c) == CHOOSE d \in 0 .. 9 : DigitChars[d + 1] = c

RECURSIVE ParseNat(_)
ParseNat(s) ==
  IF s = <<>> THEN 0
  ELSE 10 * ParseNat(SubSeq(s, 1, Len(s) - 1)) + DigitValue(s[Len(s)])

ReadAsUTC(s) ==
  LET t == CHOOSE i \in Indices(s) : s[i] = "T"
  IN 86400 * ParseNat(SubSeq(s, 1, t - 1))
       + 3600 * ParseNat(SubSeq(s, t + 1, t + 2))
       + 60 * ParseNat(SubSeq(s, t + 4, t + 5))
       + ParseNat(SubSeq(s, t + 7, t + 8))

\* C14: for every instant and every timezone offset of the server, end_time
\* read as a UTC timestamp is the instant 30 seconds before now, truncated
\* to whole seconds, and start_time is 24 hours before end_time.
C14_WindowEndsThirtySecondsAgo ==
  (last.op = "get_tweet_count_24h" /\ last.resolved) =>
    /\ ReadAsUTC(last.params.end_time) = (last.now.utc - 2 * 30) \div 2
    /\ ReadAsUTC(last.params.start_time)
         = ReadAsUTC(last.params.end_time) - 24 * 3600

\* C15: every stored active entry can fire: its reminder_time is the HH:MM
\* string the checker computes for some minute of the day.
C15_EveryReminderCanFire ==
  \A i \in Indices(reminders) :
    reminders[i].config.active =>
      \E h \in 0 .. 23, m \in 0 .. 59 :
        StrftimeHM(<<h, m>>) = reminders[i].config.reminder_time

FetchesFor(id) ==
  { k \in Indices(last.fetched) : last.fetched[k].reminder_id = id }

\* C16: a pass fetches no count, records no result and sends no message for
\* an entry that is disabled, at any clock time; a disabled entry becomes
\* active again only by a successful setup_daily_reminder for its id, which
\* does make it active.
C16_DisabledUntilSetup ==
  /\ [](IsCheck =>
          \A i \in Indices(reminders) :
            ~reminders[i].config.active =>
              /\ FetchesFor(reminders[i].id) = {}
              /\ ResultsFor(reminders[i].id) = {}
              /\ SendsFor(reminders[i].id) = {})
  /\ []((last.op = "setup" /\ last.success) =>
          \E i \in Indices(reminders) :
            reminders[i].id = last.reminder_id /\ reminders[i].config.active)
  /\ [][ \A i \in Indices(reminders) :
           (~reminders[i].config.active /\ reminders'[i].config.active) =>
             /\ last'.op = "setup"
             /\ last'.success
             /\ last'.reminder_id = reminders[i].id ]_vars

C16_Witness ==
  /\ IsCheck
  /\ last.report.results # <<>>
  /\ \E i \in Indices(reminders) :
       /\ ~reminders[i].config.active
       /\ reminders[i].config.reminder_time = last.report.check_time

====
